---------------------------- MODULE Spec2Model ----------------------------
(***************************************************************************)
(* log2vcd: a line-oriented signal log is parsed (src/src/value_change.rs) *)
(* and written as a VCD stream (src/src/main.rs).                          *)
(*                                                                         *)
(* A text is a sequence of characters, each character a one-character      *)
(* string.  "U+0663" stands for the single character ARABIC-INDIC DIGIT    *)
(* THREE, which the regex class \d accepts and the integer parsers reject. *)
(* A 64-bit unsigned integer (u64, usize) is a tuple of four 16-bit limbs, *)
(* least significant first, so that values beyond 2^32 are kept exactly.   *)
(***************************************************************************)
EXTENDS Integers, Sequences, FiniteSets, TLC

VARIABLES
    line,           \* SpecParse: the &str handed to ValueChange::from_str
    result,         \* SpecParse: what from_str returned
    input,          \* the lines the reader yields (main.rs:55)
    pos,            \* number of lines consumed by the filter_map (main.rs:64)
    value_changes,  \* Vec<ValueChange> (main.rs:64)
    id_iter,        \* start of the range 0u32..93u32 (main.rs:69)
    variables,      \* HashMap name -> (type, size, id) (main.rs:72)
    reg_idx,        \* number of elements the loop of main.rs:74 has handled
    out,            \* what the vcd Writer has written, record by record
    body_idx,       \* number of elements the loop of main.rs:115 has handled
    pc              \* position of main

vars == <<line, result, input, pos, value_changes, id_iter, variables,
          reg_idx, out, body_idx, pc>>

---------------------------------------------------------------------------
(* Characters *)

AsciiDigit == {"0", "1", "2", "3", "4", "5", "6", "7", "8", "9"}

\* \d of the regex crate is Unicode-aware: any decimal digit.
ReDigit == AsciiDigit \cup {"U+0663"}

\* \s of the regex, and the White_Space that str::trim strips.
WS == {" ", "\t"}

\* [a-zA-Z0-9.]  (the letters the model's inputs use)
NameCh == AsciiDigit \cup {"a", "b", "c", "d", "e", "f", "g", "h", "i", "j",
                           "q", "x", "y", "z", "A", "X", "Z", "."}

\* [01xXzZ]
Logic == {"0", "1", "x", "X", "z", "Z"}

DigitVal == [c \in AsciiDigit |->
               CASE c = "0" -> 0 [] c = "1" -> 1 [] c = "2" -> 2 [] c = "3" -> 3
                 [] c = "4" -> 4 [] c = "5" -> 5 [] c = "6" -> 6 [] c = "7" -> 7
                 [] c = "8" -> 8 [] c = "9" -> 9]

At(s, i) == IF i \in 1..Len(s) THEN s[i] ELSE "EOF"

MaxOf(S) == CHOOSE x \in S : \A y \in S : y <= x
MinOf(S) == CHOOSE x \in S : \A y \in S : x <= y

---------------------------------------------------------------------------
(* 64-bit unsigned integers as four 16-bit limbs *)

LimbBase == 2^16

U64(n) == <<n, 0, 0, 0>>

U64Lt(a, b) ==
    \E k \in 1..4 : a[k] < b[k] /\ \A j \in (k+1)..4 : a[j] = b[j]

U64Le(a, b) == a = b \/ U64Lt(a, b)

\* len > width, for a length that fits one limb
LenGtWidth(len, width) ==
    width[2] = 0 /\ width[3] = 0 /\ width[4] = 0 /\ len > width[1]

\* acc * 10 + d, with the overflow the checked arithmetic of from_str reports
MulAdd10(acc, d) ==
    LET a1 == acc[1] * 10 + d
        a2 == acc[2] * 10 + (a1 \div LimbBase)
        a3 == acc[3] * 10 + (a2 \div LimbBase)
        a4 == acc[4] * 10 + (a3 \div LimbBase)
    IN  [ovf |-> a4 >= LimbBase,
         v   |-> <<a1 % LimbBase, a2 % LimbBase, a3 % LimbBase, a4 % LimbBase>>]

RECURSIVE ParseDigits(_, _)
ParseDigits(digs, acc) ==
    IF digs = <<>> THEN [ok |-> TRUE, v |-> acc]
    ELSE IF Head(digs) \notin AsciiDigit THEN [ok |-> FALSE]
    ELSE LET r == MulAdd10(acc, DigitVal[Head(digs)])
         IN  IF r.ovf THEN [ok |-> FALSE] ELSE ParseDigits(Tail(digs), r.v)

\* u64::from_str / usize::from_str on a 64-bit target
ParseU64(digs) ==
    IF digs = <<>> THEN [ok |-> FALSE] ELSE ParseDigits(digs, U64(0))

---------------------------------------------------------------------------
(* str::trim *)

Trim(s) ==
    LET keep == {i \in 1..Len(s) : s[i] \notin WS}
    IN  IF keep = {} THEN <<>> ELSE SubSeq(s, MinOf(keep), MaxOf(keep))

---------------------------------------------------------------------------
(* The regex  #(\d+)\s([a-zA-Z0-9.]+)\s([01xXzZ]+|\d+\.\d+)\s(\d+|f)       *)
(* searched unanchored (Regex::captures): the leftmost start that matches, *)
(* and there the first match in priority order: a greedy repetition tries  *)
(* its longest length first, an alternation its left branch first.         *)

\* length of the longest run of characters of class starting at s[i]
Run(s, i, class) ==
    MaxOf({n \in 0..(Len(s) + 1 - i) : \A k \in i..(i + n - 1) : s[k] \in class}
          \cup {0})

\* (\d+|f) at p: the regex ends here, so the first match in priority order
\* is the longest digit run, and failing that the letter f
Match4(s, p, n) ==
    IF n >= 1 THEN [m |-> TRUE, g4 |-> SubSeq(s, p, p + n - 1)]
    ELSE IF At(s, p) = "f" THEN [m |-> TRUE, g4 |-> <<"f">>]
    ELSE [m |-> FALSE]

\* the lengths k of a repetition of class at p that a \s follows
RunsBeforeWS(s, p, class) ==
    {k \in 1..Run(s, p, class) : At(s, p + k) \in WS}

\* ([01xXzZ]+|\d+\.\d+)\s(\d+|f) at p: every way to match it, as
\* [alt, ka, k3]: the branch of the alternation, the length of the digits
\* before the point (branch 2), the length of the whole group
Ways3(s, p) ==
    {[alt |-> 1, ka |-> 0, k3 |-> k] :
        k \in {k \in RunsBeforeWS(s, p, Logic) :
                 Match4(s, p + k + 1, Run(s, p + k + 1, ReDigit)).m}}
    \cup
    UNION {{[alt |-> 2, ka |-> ka, k3 |-> ka + 1 + kb] :
              kb \in {k \in RunsBeforeWS(s, p + ka + 1, ReDigit) :
                        Match4(s, p + ka + k + 2, Run(s, p + ka + k + 2, ReDigit)).m}} :
           ka \in {k \in 1..Run(s, p, ReDigit) : At(s, p + k) = "."}}

\* every way to match the whole regex in s, as [i, k1, k2, alt, ka, k3]:
\* the position of the #, the lengths of groups 1 and 2, and the way of
\* group 3
Ways(s) ==
    UNION {UNION {UNION {
        {[i |-> i, k1 |-> k1, k2 |-> k2, alt |-> w.alt, ka |-> w.ka, k3 |-> w.k3] :
            w \in Ways3(s, i + k1 + k2 + 3)} :
        k2 \in RunsBeforeWS(s, i + k1 + 2, NameCh)} :
        k1 \in RunsBeforeWS(s, i + 1, ReDigit)} :
        i \in {j \in 1..Len(s) : s[j] = "#"}}

\* leftmost start first; then a greedy repetition's longer length first and
\* an alternation's left branch first, in the order the regex meets them
Priority(w) == <<0 - w.i, w.k1, w.k2, 0 - w.alt, w.ka, w.k3>>

LexGe(x, y) ==
    \/ x = y
    \/ \E j \in 1..Len(x) : x[j] > y[j] /\ \A l \in 1..(j - 1) : x[l] = y[l]

FirstWay(ways) ==
    CHOOSE w \in ways : \A v \in ways : LexGe(Priority(w), Priority(v))

\* the capture groups of the way w
Groups(s, w, p3, p4) ==
    [m  |-> TRUE,
     g1 |-> SubSeq(s, w.i + 1, w.i + w.k1),
     g2 |-> SubSeq(s, w.i + w.k1 + 2, w.i + w.k1 + w.k2 + 1),
     g3 |-> SubSeq(s, p3, p3 + w.k3 - 1),
     g4 |-> Match4(s, p4, Run(s, p4, ReDigit)).g4]

GroupsOf(s, w) ==
    Groups(s, w, w.i + w.k1 + w.k2 + 3, w.i + w.k1 + w.k2 + w.k3 + 4)

CapturesIn(s, ways) ==
    IF ways = {} THEN [m |-> FALSE] ELSE GroupsOf(s, FirstWay(ways))

\* RE.captures(s)
Captures(s) == CapturesIn(s, Ways(s))

---------------------------------------------------------------------------
(* Values (value_change.rs:6-16) and results *)

Ok(v) == [ok |-> TRUE, val |-> v]
Err(e) == [ok |-> FALSE, err |-> e]

Scalar(v) == [kind |-> "Scalar", v |-> v]
BinaryVector(width, value) == [kind |-> "BinaryVector", width |-> width, value |-> value]
Real(v) == [kind |-> "Real", v |-> v]

\* impl FromStr for ScalarValue
ScalarValue_from_str(s) ==
    CASE s = <<"0">> -> Ok("V0")
      [] s = <<"1">> -> Ok("V1")
      [] s = <<"x">> \/ s = <<"X">> -> Ok("X")
      [] s = <<"z">> \/ s = <<"Z">> -> Ok("Z")
      [] OTHER -> Err("()")

\* the arms of `match c` in the vector branch; "none" is the `_` arm
CharToScalar(c) ==
    CASE c = "0" -> "V0"
      [] c = "1" -> "V1"
      [] c = "x" \/ c = "X" -> "X"
      [] c = "z" \/ c = "Z" -> "Z"
      [] OTHER -> "none"

\* The f64 a decimal literal denotes, kept as its canonical decimal: the
\* integer digits without leading zeros and the fraction digits without
\* trailing zeros.  Literals are short enough (under 16 significant digits)
\* for distinct decimals to be distinct f64 values.
RECURSIVE StripLeadingZeros(_)
StripLeadingZeros(d) ==
    IF d # <<>> /\ Head(d) = "0" THEN StripLeadingZeros(Tail(d)) ELSE d

RECURSIVE StripTrailingZeros(_)
StripTrailingZeros(d) ==
    IF d # <<>> /\ d[Len(d)] = "0"
    THEN StripTrailingZeros(SubSeq(d, 1, Len(d) - 1)) ELSE d

\* f64::from_str on what group 3 of the regex can capture
F64_from_str(s) ==
    LET dots == {i \in 1..Len(s) : s[i] = "."}
    IN  IF \E i \in 1..Len(s) : s[i] \notin AsciiDigit \cup {"."} THEN Err("ParseFloatError")
        ELSE IF Cardinality(dots) > 1 \/ Len(s) = Cardinality(dots) THEN Err("ParseFloatError")
        ELSE IF dots = {} THEN Ok([int |-> StripLeadingZeros(s), frac |-> <<>>])
        ELSE LET p == MinOf(dots)
             IN  Ok([int  |-> StripLeadingZeros(SubSeq(s, 1, p - 1)),
                     frac |-> StripTrailingZeros(SubSeq(s, p + 1, Len(s)))])

\* faulty variant of VecTooLarge: `>=` for `>`
VecTooLargeGe(len, width) == LenGtWidth(len + 1, width)

\* `if vec.len() > width` (value_change.rs:112)
VecTooLarge(len, width) == LenGtWidth(len, width)

\* the Ok(width) arm (value_change.rs:101-116)
ParseVector(value_str, width) ==
    IF \E i \in 1..Len(value_str) : CharToScalar(value_str[i]) = "none"
    THEN Err("InvalidValue")
    ELSE LET vec == [i \in 1..Len(value_str) |-> CharToScalar(value_str[i])]
         IN  IF VecTooLarge(Len(vec), width)
             THEN Err("ValueTooLargeForVecWidth")
             ELSE Ok(BinaryVector(width, vec))

\* the Ok(1) arm (value_change.rs:97-100)
ParseScalar(value) ==
    IF value.ok THEN Ok(Scalar(value.val)) ELSE Err("InvalidValue")

\* the `f` branch (value_change.rs:90-93)
ParseReal(real) ==
    IF real.ok THEN Ok(Real(real.val)) ELSE Err("InvalidValue")

\* faulty variant of MatchWidth: the Ok(1) arm is missing
MatchWidthNoScalarArm(value_str, n) ==
    IF ~n.ok THEN Err("InvalidValueType") ELSE ParseVector(value_str, n.v)

\* `match usize::from_str(value_type_str)` (value_change.rs:96-120)
MatchWidth(value_str, n) ==
    IF ~n.ok THEN Err("InvalidValueType")
    ELSE IF n.v = U64(1) THEN ParseScalar(ScalarValue_from_str(value_str))
    ELSE ParseVector(value_str, n.v)

\* `let value = if value_type_str == "f" ... else ...` (value_change.rs:90-121)
ParseValue(value_str, value_type_str) ==
    IF value_type_str = <<"f">> THEN ParseReal(F64_from_str(value_str))
    ELSE MatchWidth(value_str, ParseU64(value_type_str))

\* `Ok(ValueChange {..})` or the error of the value (value_change.rs:90-127)
WithValue(timestamp, name_str, value) ==
    IF ~value.ok THEN value
    ELSE Ok([timestamp |-> timestamp, signal_name |-> name_str, value |-> value.val])

\* the timestamp, then the value (value_change.rs:89)
WithTimestamp(timestamp, caps) ==
    IF ~timestamp.ok THEN Err("ParseTimestampErr")
    ELSE WithValue(timestamp.v, caps.g2, ParseValue(caps.g3, caps.g4))

\* `RE.captures(s).ok_or(InvalidFormat)?` and the groups (value_change.rs:81-86)
WithCaptures(caps) ==
    IF ~caps.m THEN Err("InvalidFormat")
    ELSE WithTimestamp(ParseU64(caps.g1), caps)

\* impl FromStr for ValueChange (value_change.rs:73-128)
ValueChange_from_str(s) == WithCaptures(Captures(Trim(s)))

---------------------------------------------------------------------------
(* The lines the parser is checked on: every combination of the pieces *)

\* 2^64 - 1 and 2^64 in decimal
DecU64Max == <<"1","8","4","4","6","7","4","4","0","7","3","7","0","9","5","5","1","6","1","5">>
DecU64Over == <<"1","8","4","4","6","7","4","4","0","7","3","7","0","9","5","5","1","6","1","6">>
\* 2^32 + 8 in decimal
DecWide == <<"4","2","9","4","9","6","7","3","0","4">>

PrePieces == {<<>>, <<" ">>, <<"a">>, <<"#", "7", " ">>}
TsPieces == {<<"5">>, DecU64Max, DecU64Over, <<"U+0663">>, <<>>}
NamePieces == {<<"a", ".", "2">>, <<"_">>}
SepPieces == {<<" ">>, <<"\t">>, <<" ", " ">>}
ValPieces == {<<"1">>, <<"0">>, <<"x">>, <<"Z">>, <<"2">>, <<"1", "0">>,
              <<"z", "1", "X">>, <<"1", "0", "1">>, <<"1", ".", "5">>,
              <<"0", "1", ".", "5", "0">>}
SizePieces == {<<"1">>, <<"0", "1">>, <<"0">>, <<"2">>, <<"3">>, DecWide,
               DecU64Over, <<"f">>, <<"g">>}
SufPieces == {<<>>, <<"\t">>, <<"y">>, <<" ", "9">>}

ParseLines ==
    {pre \o <<"#">> \o ts \o <<" ">> \o name \o sep \o val \o <<" ">> \o size \o suf :
        pre \in PrePieces, ts \in TsPieces, name \in NamePieces, sep \in SepPieces,
        val \in ValPieces, size \in SizePieces, suf \in SufPieces}

---------------------------------------------------------------------------
(* SpecParse: one call of ValueChange::from_str *)

NoResult == [ok |-> FALSE, err |-> "not called"]

InitParse ==
    /\ line \in ParseLines
    /\ result = NoResult
    /\ input = <<>> /\ pos = 0 /\ value_changes = <<>> /\ id_iter = 0
    /\ variables = <<>> /\ reg_idx = 0 /\ out = <<>> /\ body_idx = 0
    /\ pc = "parse"

Parse ==
    /\ pc = "parse"
    /\ result' = ValueChange_from_str(line)
    /\ pc' = "parsed"
    /\ UNCHANGED <<line, input, pos, value_changes, id_iter, variables,
                   reg_idx, out, body_idx>>

NextParse == Parse

SpecParse == InitParse /\ [][NextParse]_vars

---------------------------------------------------------------------------
(* main (main.rs:46-136) *)

\* faulty variant of KeepParsed: a line that fails to parse leaves a default event
KeepParsedOrDefault(changes, r) ==
    IF r.ok THEN Append(changes, r.val)
    ELSE Append(changes, [timestamp |-> U64(0), signal_name |-> <<>>,
                          value |-> Scalar("X")])

\* the closure of filter_map: `ValueChange::from_str(..).ok()` (main.rs:64-66)
KeepParsed(changes, r) == IF r.ok THEN Append(changes, r.val) ELSE changes

\* Vec::sort_by_key(|v| v.timestamp) is a stable sort (main.rs:67): an
\* element comes after every element with a smaller key and after the
\* elements with an equal key that stood before it.
StableRank(seq, i) ==
    Cardinality({j \in 1..Len(seq) :
                   \/ U64Lt(seq[j].timestamp, seq[i].timestamp)
                   \/ j < i /\ seq[j].timestamp = seq[i].timestamp}) + 1

\* the sequence that holds seq[i] at the place ranked[i][1]
PlaceByRank(seq, ranked) ==
    [r \in 1..Len(seq) |-> seq[(CHOOSE p \in ranked : p[1] = r)[2]]]

\* faulty variant of SortByKey: sort_unstable_by_key, equal keys come out reversed
UnstableRank(seq, i) ==
    Cardinality({j \in 1..Len(seq) :
                   \/ U64Lt(seq[j].timestamp, seq[i].timestamp)
                   \/ j > i /\ seq[j].timestamp = seq[i].timestamp}) + 1

SortUnstableByKey(seq) ==
    PlaceByRank(seq, {<<UnstableRank(seq, i), i>> : i \in 1..Len(seq)})

SortByKey(seq) ==
    PlaceByRank(seq, {<<StableRank(seq, i), i>> : i \in 1..Len(seq)})

\* the end of the range 0u32..93u32
IdEnd == 93

\* faulty variant of IdIterNext: the range 0u32..=93u32
IdIterNextInclusive(start) ==
    IF start <= IdEnd THEN [some |-> TRUE, value |-> start, start |-> start + 1]
    ELSE [some |-> FALSE, start |-> start]

\* faulty variant of IdIterNext: the range is not advanced
IdIterNextStuck(start) ==
    IF start < IdEnd THEN [some |-> TRUE, value |-> start, start |-> start]
    ELSE [some |-> FALSE, start |-> start]

\* Range<u32>::next on id_iter
IdIterNext(start) ==
    IF start < IdEnd THEN [some |-> TRUE, value |-> start, start |-> start + 1]
    ELSE [some |-> FALSE, start |-> start]

\* IdCode::from(id): the newtype around the number
IdCodeFrom(id) == [idcode |-> id]

\* `let (sig_type, width) = match elem.value` (main.rs:76-80)
TypeAndWidth(value) ==
    CASE value.kind = "Scalar" -> [var_type |-> "Wire", width |-> U64(1)]
      [] value.kind = "BinaryVector" -> [var_type |-> "Integer", width |-> value.width]
      [] value.kind = "Real" -> [var_type |-> "Real", width |-> U64(32)]

\* the entry of a newly seen name (main.rs:76-82)
NewEntry(value, id) ==
    [var_type |-> TypeAndWidth(value).var_type,
     width    |-> TypeAndWidth(value).width,
     code     |-> IdCodeFrom(id)]

\* faulty variant of OrInsertWith: variables.insert(name, ..), which overwrites
InsertAlways(vs, start, elem) ==
    IF ~IdIterNext(start).some
    THEN [panicked |-> TRUE, variables |-> vs, start |-> start]
    ELSE [panicked |-> FALSE,
          variables |-> [n \in DOMAIN vs \cup {elem.signal_name} |->
                          IF n = elem.signal_name
                          THEN NewEntry(elem.value, IdIterNext(start).value)
                          ELSE vs[n]],
          start |-> IdIterNext(start).start]

\* variables.entry(name).or_insert_with(..) (main.rs:75-83): what becomes of
\* the map and of id_iter; panicked is the expect() on an exhausted range
OrInsertWith(vs, start, elem) ==
    IF elem.signal_name \in DOMAIN vs
    THEN [panicked |-> FALSE, variables |-> vs, start |-> start]
    ELSE LET id == IdIterNext(start)
         IN  IF ~id.some
             THEN [panicked |-> TRUE, variables |-> vs, start |-> id.start]
             ELSE [panicked |-> FALSE,
                   variables |-> [n \in DOMAIN vs \cup {elem.signal_name} |->
                                   IF n \in DOMAIN vs THEN vs[n]
                                   ELSE NewEntry(elem.value, id.value)],
                   start |-> id.start]

\* `*size as u32` (main.rs:94): the low 32 bits
AsU32(size) == <<size[1], size[2]>>

\* ScopeItem::Var(Var {..}) of one map entry (main.rs:92-97)
VarOf(name, entry) ==
    [var_type  |-> entry.var_type,
     size      |-> AsU32(entry.width),
     code      |-> entry.code,
     reference |-> name]

\* how many names the model shuffles in every possible way
MaxShuffle == 4

\* HashMap::iter() visits the entries in an order the program does not
\* choose: every order of a small map, and of a larger one the two orders by
\* identifier.
IterOrders(vs) ==
    LET names == DOMAIN vs
        n     == Cardinality(names)
    IN  IF n <= MaxShuffle
        THEN {f \in [1..n -> names] : \A i, j \in 1..n : i # j => f[i] # f[j]}
        ELSE LET byId == [i \in 1..n |->
                            CHOOSE nm \in names :
                              Cardinality({m \in names :
                                 vs[m].code.idcode < vs[nm].code.idcode}) = i - 1]
             IN  {byId, [i \in 1..n |-> byId[n + 1 - i]]}

\* impl Into<vcd::Value> for ScalarValue (value_change.rs:18-27); a
\* vcd::Value is written as its VCD character
IntoVcdValue(v) ==
    CASE v = "V0" -> "0" [] v = "V1" -> "1" [] v = "X" -> "x" [] v = "Z" -> "z"

\* Writer::timestamp(ts)
TimestampRec(ts) == [rec |-> "timestamp", ts |-> ts]

\* the `match change.value` of the body loop (main.rs:117-132)
ChangeRec(id, value) ==
    CASE value.kind = "Scalar" ->
           [rec |-> "change_scalar", id |-> id, v |-> IntoVcdValue(value.v)]
      [] value.kind = "BinaryVector" ->
           [rec |-> "change_vector", id |-> id,
            v |-> [i \in 1..Len(value.value) |-> IntoVcdValue(value.value[i])]]
      [] value.kind = "Real" ->
           [rec |-> "change_real", id |-> id, v |-> value.v]

\* faulty variant of BodyRecords: no marker when the timestamp is that of the last one
BodyRecordsMerged(written, change, vs) ==
    IF written[MaxOf({j \in 1..Len(written) : written[j].rec = "timestamp"})].ts
         = change.timestamp
    THEN <<ChangeRec(vs[change.signal_name].code, change.value)>>
    ELSE <<TimestampRec(change.timestamp),
           ChangeRec(vs[change.signal_name].code, change.value)>>

\* one turn of the body loop (main.rs:115-133): what it appends to the output
BodyRecords(written, change, vs) ==
    <<TimestampRec(change.timestamp),
      ChangeRec(vs[change.signal_name].code, change.value)>>

---------------------------------------------------------------------------
(* Actions *)

\* one line through the filter_map of main.rs:64-66
ReadLine ==
    /\ pc = "read"
    /\ pos < Len(input)
    /\ value_changes' = KeepParsed(value_changes, ValueChange_from_str(input[pos + 1]))
    /\ pos' = pos + 1
    /\ UNCHANGED <<line, result, input, id_iter, variables, reg_idx, out, body_idx, pc>>

\* end of input: collect() is complete and the vector is sorted (main.rs:67)
SortChanges ==
    /\ pc = "read"
    /\ pos = Len(input)
    /\ value_changes' = SortByKey(value_changes)
    /\ pc' = "register"
    /\ UNCHANGED <<line, result, input, pos, id_iter, variables, reg_idx, out, body_idx>>

\* one turn of `for elem in &value_changes` (main.rs:74-84)
Register ==
    /\ pc = "register"
    /\ reg_idx < Len(value_changes)
    /\ LET r == OrInsertWith(variables, id_iter, value_changes[reg_idx + 1])
       IN  /\ variables' = r.variables
           /\ id_iter' = r.start
           /\ pc' = IF r.panicked THEN "panicked" ELSE "register"
           /\ reg_idx' = IF r.panicked THEN reg_idx ELSE reg_idx + 1
    /\ UNCHANGED <<line, result, input, pos, value_changes, out, body_idx>>

\* the scope, the header and the initial timestamp (main.rs:87-110)
WriteHeader ==
    /\ pc = "register"
    /\ reg_idx = Len(value_changes)
    /\ \E order \in IterOrders(variables) :
         out' = <<[rec |-> "header", scope |-> "outputs",
                   children |-> [i \in 1..Len(order) |->
                                   VarOf(order[i], variables[order[i]])]],
                  TimestampRec(U64(0))>>
    /\ pc' = "body"
    /\ UNCHANGED <<line, result, input, pos, value_changes, id_iter, variables,
                   reg_idx, body_idx>>

\* one turn of `for change in value_changes` (main.rs:115-133)
WriteChange ==
    /\ pc = "body"
    /\ body_idx < Len(value_changes)
    /\ out' = out \o BodyRecords(out, value_changes[body_idx + 1], variables)
    /\ body_idx' = body_idx + 1
    /\ UNCHANGED <<line, result, input, pos, value_changes, id_iter, variables,
                   reg_idx, pc>>

\* output.flush() and the end of main (main.rs:135)
Flush ==
    /\ pc = "body"
    /\ body_idx = Len(value_changes)
    /\ pc' = "done"
    /\ UNCHANGED <<line, result, input, pos, value_changes, id_iter, variables,
                   reg_idx, out, body_idx>>

Next == ReadLine \/ SortChanges \/ Register \/ WriteHeader \/ WriteChange \/ Flush

---------------------------------------------------------------------------
(* Spec: every input of at most MaxLines lines drawn from PipeLines *)

MaxLines == 3

PipeLines ==
    { <<"#","5"," ","a"," ","1"," ","1">>,
      <<"#","5"," ","b"," ","1","0"," ","2">>,
      <<"#","0"," ","a"," ","1",".","5"," ","f">>,
      <<"#","3"," ","b"," ","x"," ">> \o DecWide,
      <<"#","3"," ","c"," ","z"," ","1">>,
      <<"g","a","r","b","a","g","e">>,
      <<" ","x","#","2"," ","c"," ","0"," ","1","y">> }

Inputs == UNION {[1..n -> PipeLines] : n \in 0..MaxLines}

InitMain ==
    /\ line = <<>>
    /\ result = NoResult
    /\ pos = 0
    /\ value_changes = <<>>
    /\ id_iter = 0
    /\ variables = <<>>
    /\ reg_idx = 0
    /\ out = <<>>
    /\ body_idx = 0
    /\ pc = "read"

Init == input \in Inputs /\ InitMain

Spec == Init /\ [][Next]_vars

---------------------------------------------------------------------------
(* SpecCap: inputs around the capacity of the identifier range *)

\* how many names beyond IdEnd the inputs reach
CapOver == 2
\* how many lines carry each name
CapReps == 2

Letters == <<"a", "b", "c", "d", "e", "f", "g", "h", "i", "j">>
Digits == <<"0", "1", "2", "3", "4", "5", "6", "7", "8", "9">>

\* the i-th signal name, i >= 0
CapName(i) == <<Letters[((i \div 10) % 10) + 1], Digits[(i % 10) + 1]>>

\* the k-th line of an input whose names come reps times each; timestamps
\* cycle through 2, 1, 0 so that the sort reorders the lines
CapLine(k, reps) ==
    <<"#", Digits[3 - (k % 3)], " ">> \o CapName((k - 1) \div reps)
        \o <<" ", Digits[(k % 2) + 1], " ", "1">>

CapInputs ==
    {[k \in 1..(n * reps) |-> CapLine(k, reps)] :
        n \in (IdEnd - 1)..(IdEnd + CapOver), reps \in 1..CapReps}

InitCap == input \in CapInputs /\ InitMain

SpecCap == InitCap /\ [][Next]_vars

---------------------------------------------------------------------------
(* The grammar of a log line, read off the line itself: the four fields   *)
(* of a trimmed line are what its whitespace characters separate.         *)

WsPositions(s) == {i \in 1..Len(s) : s[i] \in WS}

NthOf(S, n) == CHOOSE x \in S : Cardinality({y \in S : y < x}) = n - 1

FieldsAt(s, p1, p2, p3) ==
    [ts   |-> SubSeq(s, 2, p1 - 1),
     name |-> SubSeq(s, p1 + 1, p2 - 1),
     val  |-> SubSeq(s, p2 + 1, p3 - 1),
     size |-> SubSeq(s, p3 + 1, Len(s))]

\* for a trimmed line with exactly three whitespace characters
Fields(s) ==
    FieldsAt(s, NthOf(WsPositions(s), 1), NthOf(WsPositions(s), 2),
             NthOf(WsPositions(s), 3))

AllIn(tok, class) == tok # <<>> /\ \A i \in 1..Len(tok) : tok[i] \in class

IsFloatLiteral(tok) ==
    \E p \in 1..Len(tok) :
        /\ tok[p] = "."
        /\ AllIn(SubSeq(tok, 1, p - 1), ReDigit)
        /\ AllIn(SubSeq(tok, p + 1, Len(tok)), ReDigit)

FieldsWellFormed(f) ==
    /\ AllIn(f.ts, ReDigit)
    /\ AllIn(f.name, NameCh)
    /\ AllIn(f.val, Logic) \/ IsFloatLiteral(f.val)
    /\ AllIn(f.size, ReDigit) \/ f.size = <<"f">>

\* s is, as a whole, #<timestamp> <signal_name> <value-token> <size-token>
WholeLineForm(s) ==
    /\ Len(s) >= 1
    /\ s[1] = "#"
    /\ Cardinality(WsPositions(s)) = 3
    /\ FieldsWellFormed(Fields(s))

\* the line under parse is of the whole-line form and its timestamp fits u64
GoodLine == WholeLineForm(Trim(line)) /\ ParseU64(Fields(Trim(line)).ts).ok

LineVal == Fields(Trim(line)).val
LineSize == Fields(Trim(line)).size

\* the size-token is a number, and its value
SizeIsNumber == LineSize # <<"f">> /\ ParseU64(LineSize).ok
SizeNumber == ParseU64(LineSize).v

---------------------------------------------------------------------------
(* C4: from_str returns InvalidFormat for every line that, once trimmed,  *)
(* is not as a whole of the form #<timestamp> <signal_name> <value-token> *)
(* <size-token>; a line with extra characters before the # or after the   *)
(* size-token produces no event.                                          *)
C4_NotWholeLineIsInvalidFormat ==
    (pc = "parsed" /\ ~WholeLineForm(Trim(line))) => result = Err("InvalidFormat")

---------------------------------------------------------------------------
C5_Bit(c) ==
    CASE c = "0" -> "V0" [] c = "1" -> "V1"
      [] c \in {"x", "X"} -> "X" [] c \in {"z", "Z"} -> "Z"

C5_Case == GoodLine /\ SizeIsNumber /\ SizeNumber # U64(0) /\ SizeNumber # U64(1)

---------------------------------------------------------------------------
C6_IsLogicChar == Len(LineVal) = 1 /\ LineVal[1] \in Logic

(* C6: the size-token alone selects the kind of value: f yields only      *)
(* Real, 1 yields only Scalar and needs the value-token to be exactly one *)
(* character of 0 1 x X z Z, N > 1 yields only BinaryVector; a            *)
(* value-token that does not fit the selected kind (several characters or *)
(* a non-logic character with size 1, a floating literal with a numeric   *)
(* size) makes from_str fail.                                             *)
C6_SizeSelectsKind ==
    (pc = "parsed" /\ GoodLine) =>
      /\ LineSize = <<"f">> => (result.ok => result.val.value.kind = "Real")
      /\ (SizeIsNumber /\ SizeNumber = U64(1)) =>
            /\ result.ok <=> C6_IsLogicChar
            /\ result.ok => result.val.value.kind = "Scalar"
      /\ (SizeIsNumber /\ SizeNumber # U64(1)) =>
            /\ result.ok => result.val.value.kind = "BinaryVector"
            /\ result.ok => SizeNumber # U64(0)
      /\ (SizeIsNumber /\ IsFloatLiteral(LineVal)) => ~result.ok
      /\ (LineSize # <<"f">> /\ ~SizeIsNumber) => ~result.ok

\* a floating literal with a numeric size was refused
C6_Witness ==
    /\ pc = "parsed"
    /\ GoodLine
    /\ SizeIsNumber
    /\ IsFloatLiteral(LineVal)
    /\ result = Err("InvalidValue")

---------------------------------------------------------------------------
(* What the run read and wrote, for the claims about main *)

\* what from_str returns for each line of inp[i..]
RECURSIVE ParseFrom(_, _)
ParseFrom(inp, i) ==
    IF i > Len(inp) THEN <<>>
    ELSE <<ValueChange_from_str(inp[i])>> \o ParseFrom(inp, i + 1)

ParseAll(inp) == ParseFrom(inp, 1)

\* the lines that parse, res being ParseAll of the input
OkIdx(res) == {i \in 1..Len(res) : res[i].ok}

IsMarker(r) == r.rec = "timestamp"
IsChange(r) == r.rec \in {"change_scalar", "change_vector", "change_real"}

ChangePositions(o) == {i \in 1..Len(o) : IsChange(o[i])}
NumChanges(o) == Cardinality(ChangePositions(o))
PosOfChange(o, k) == NthOf(ChangePositions(o), k)

\* the last timestamp marker among o[1..i]
LastMarkerUpTo(o, i) == o[MaxOf({j \in 1..i : IsMarker(o[j])})]

WireChar(v) ==
    CASE v = "V0" -> "0" [] v = "V1" -> "1" [] v = "X" -> "x" [] v = "Z" -> "z"

\* r is the change record of event e, under the identifiers of the registry
Encodes(r, e) ==
    /\ r.id = variables[e.signal_name].code
    /\ CASE e.value.kind = "Scalar" ->
              r.rec = "change_scalar" /\ r.v = WireChar(e.value.v)
         [] e.value.kind = "BinaryVector" ->
              /\ r.rec = "change_vector"
              /\ r.v = [i \in 1..Len(e.value.value) |-> WireChar(e.value.value[i])]
         [] e.value.kind = "Real" ->
              r.rec = "change_real" /\ r.v = e.value.v

Bijections(n, S) ==
    {p \in [1..n -> S] : \A i, j \in 1..n : i # j => p[i] # p[j]}

FirstIdx(seq, name) == MinOf({i \in 1..Len(seq) : seq[i].signal_name = name})
NamesUpTo(seq, k) == {seq[i].signal_name : i \in 1..k}

\* name is the Rank-th distinct name of seq
Rank(seq, name) == Cardinality(NamesUpTo(seq, FirstIdx(seq, name)))

---------------------------------------------------------------------------
C1_InOrder(res, p) ==
    \A k, l \in 1..Len(p) : k < l =>
        \/ U64Lt(res[p[k]].val.timestamp, res[p[l]].val.timestamp)
        \/ /\ res[p[k]].val.timestamp = res[p[l]].val.timestamp
           /\ p[k] < p[l]

C1_MarkersNonDecreasing(o) ==
    /\ IsMarker(o[2]) /\ o[2].ts = U64(0)
    /\ \A i, j \in 2..Len(o) :
         (i < j /\ IsMarker(o[i]) /\ IsMarker(o[j])) => U64Le(o[i].ts, o[j].ts)

C1_RecordsInStableOrder(res) ==
    /\ NumChanges(out) = Cardinality(OkIdx(res))
    /\ \E p \in Bijections(NumChanges(out), OkIdx(res)) :
         /\ C1_InOrder(res, p)
         /\ \A k \in 1..NumChanges(out) :
              /\ Encodes(out[PosOfChange(out, k)], res[p[k]].val)
              /\ LastMarkerUpTo(out, PosOfChange(out, k)).ts = res[p[k]].val.timestamp

(* C1: on every completed run the timestamp markers (the initial one at 0 *)
(* and those of the body) are non-decreasing, and the change records come *)
(* in the order of a stable sort by timestamp of the parsed events: equal *)
(* timestamps keep their input-line order.                                *)
C1_StableSortedOutput ==
    pc = "done" =>
      /\ C1_MarkersNonDecreasing(out)
      /\ C1_RecordsInStableOrder(ParseAll(input))

\* the lines were out of order and held two different events of one timestamp
C1_Shuffled(res) ==
    /\ \E i, j \in OkIdx(res) :
         i < j /\ U64Lt(res[j].val.timestamp, res[i].val.timestamp)
    /\ \E i, j \in OkIdx(res) :
         /\ i < j
         /\ res[i].val.timestamp = res[j].val.timestamp
         /\ res[i].val.signal_name # res[j].val.signal_name

C1_Witness == pc = "done" /\ C1_Shuffled(ParseAll(input))

---------------------------------------------------------------------------
C3_EventsOf(res, idx) ==
    [k \in 1..Cardinality(idx) |-> res[NthOf(idx, k)].val]

C3_ParsedSoFar(res) == C3_EventsOf(res, OkIdx(res) \cap 1..pos)

C3_RecordsMatchLines(res) ==
    /\ NumChanges(out) = Cardinality(OkIdx(res))
    /\ \E p \in Bijections(NumChanges(out), OkIdx(res)) :
         \A k \in 1..NumChanges(out) :
            Encodes(out[PosOfChange(out, k)], res[p[k]].val)

(* C3: a line that fails to parse never aborts the run and contributes    *)
(* nothing: the events collected are those of the lines that parse, and   *)
(* the change records written correspond one to one to exactly those      *)
(* lines.                                                                 *)
C3_OnlyParsedLinesWritten ==
    /\ pc # "panicked"
    /\ pc = "read" => value_changes = C3_ParsedSoFar(ParseAll(input))
    /\ pc = "done" => C3_RecordsMatchLines(ParseAll(input))

\* a malformed line stands between two lines that parse
C3_Interspersed(res) ==
    \E i, j, l \in 1..Len(res) :
       i < j /\ j < l /\ res[i].ok /\ ~res[j].ok /\ res[l].ok

C3_Witness == pc = "done" /\ C3_Interspersed(ParseAll(input)) /\ NumChanges(out) = 2

---------------------------------------------------------------------------
(* C7: the k-th event of the body loop, the marker before its record, and *)
(* the marker written last before the loop turned to it                   *)
C7_MarkerWritten(k) == IsMarker(out[PosOfChange(out, k) - 1])

C7_PreviousTs(k) ==
    LastMarkerUpTo(out, IF k = 1 THEN 2 ELSE PosOfChange(out, k - 1)).ts

(* C7 as stated: a timestamp marker is written before an event's change   *)
(* record if and only if the event's timestamp differs from that of the   *)
(* previously written marker (the initial marker at 0 included).          *)
C7_MarkerIffTimestampDiffers ==
    pc \in {"body", "done"} =>
      \A k \in 1..NumChanges(out) :
         C7_MarkerWritten(k) <=> value_changes[k].timestamp # C7_PreviousTs(k)

(* C7 as amended: a timestamp marker carrying the event's timestamp is    *)
(* written before the change record of every event, also when that        *)
(* timestamp equals the one of the previously written marker.             *)
C7_MarkerBeforeEveryRecord ==
    pc \in {"body", "done"} =>
      /\ NumChanges(out) = body_idx
      /\ \A k \in 1..NumChanges(out) :
           /\ PosOfChange(out, k) = 2 + 2 * k
           /\ C7_MarkerWritten(k)
           /\ out[PosOfChange(out, k) - 1].ts = value_changes[k].timestamp

\* an event whose timestamp is that of the previous marker got a marker
C7_Witness ==
    /\ pc = "done"
    /\ \E k \in 1..NumChanges(out) :
         /\ k > 1
         /\ value_changes[k].timestamp = C7_PreviousTs(k)
         /\ C7_MarkerWritten(k)

---------------------------------------------------------------------------
C8_Shape(value) ==
    CASE value.kind = "Scalar" -> <<"Wire", U64(1)>>
      [] value.kind = "BinaryVector" -> <<"Integer", value.width>>
      [] value.kind = "Real" -> <<"Real", U64(32)>>

C8_EntryOfFirst(name) ==
    [var_type |-> C8_Shape(value_changes[FirstIdx(value_changes, name)].value)[1],
     width    |-> C8_Shape(value_changes[FirstIdx(value_changes, name)].value)[2],
     code     |-> [idcode |-> Rank(value_changes, name) - 1]]

(* C8: the registry entry of a name (wire type, width, identifier) is     *)
(* fixed by the first event of that name in the sorted sequence: Scalar   *)
(* gives wire/1, BinaryVector{width} integer/width, Real real/32; later   *)
(* events of the name, also of another kind or width, leave it unchanged  *)
(* and raise no error.                                                    *)
C8_FirstOccurrenceFixesEntry ==
    /\ pc # "panicked"
    /\ pc \in {"register", "body", "done"} =>
         /\ DOMAIN variables = NamesUpTo(value_changes, reg_idx)
         /\ \A name \in DOMAIN variables : variables[name] = C8_EntryOfFirst(name)

\* the registry loop has passed a later event of a registered name whose
\* kind differs from the first one's
C8_Witness ==
    /\ pc \in {"register", "body", "done"}
    /\ \E i, j \in 1..reg_idx :
         /\ i < j
         /\ value_changes[i].signal_name = value_changes[j].signal_name
         /\ value_changes[i].value.kind # value_changes[j].value.kind

---------------------------------------------------------------------------
C9_IdsFollow(sorted) ==
    /\ pc \in {"register", "body", "done"} =>
         /\ \A name \in DOMAIN variables :
              variables[name].code.idcode = Rank(sorted, name) - 1
         /\ \A n1, n2 \in DOMAIN variables :
              n1 # n2 => variables[n1].code # variables[n2].code
         /\ id_iter = Cardinality(DOMAIN variables)
    /\ pc \in {"body", "done"} =>
         /\ Len(out[1].children) = Cardinality(DOMAIN variables)
         /\ \A i \in 1..Len(out[1].children) :
              out[1].children[i].code.idcode
                 = Rank(sorted, out[1].children[i].reference) - 1
         /\ \A k \in 1..NumChanges(out) :
              out[PosOfChange(out, k)].id.idcode
                 = Rank(sorted, sorted[k].signal_name) - 1

C9_EventsOf(res) == [k \in 1..Cardinality(OkIdx(res)) |-> res[NthOf(OkIdx(res), k)].val]

(* C9: the k-th distinct name of the sorted events gets identifier k-1,   *)
(* no two names share one, and the identifier of a name, in the registry, *)
(* in the header and in the change records, is decided by the input       *)
(* lines, whatever order the map is iterated in.                          *)
C9_SequentialInjectiveIds ==
    C9_IdsFollow(SortByKey(C9_EventsOf(ParseAll(input))))

\* three names, declared in the header in another order than their identifiers
C9_Witness ==
    /\ pc = "done"
    /\ Cardinality(DOMAIN variables) >= 3
    /\ \E i, j \in 1..Len(out[1].children) :
         i < j /\ out[1].children[i].code.idcode > out[1].children[j].code.idcode

---------------------------------------------------------------------------
(* C10: for every signal first seen as BinaryVector{width: N} the width   *)
(* written in its header declaration equals N, for every N the parser     *)
(* accepts, N >= 2^32 included.                                           *)
C10_HeaderWidthIsN ==
    pc \in {"body", "done"} =>
      \A i \in 1..Len(out[1].children) :
         LET first == value_changes[FirstIdx(value_changes, out[1].children[i].reference)]
         IN  first.value.kind = "BinaryVector" =>
               <<out[1].children[i].size[1], out[1].children[i].size[2], 0, 0>>
                  = first.value.width

---------------------------------------------------------------------------
(* C2: the registry is built for any input with at most 93 distinct       *)
(* names and the run aborts exactly when a 94th distinct name is met; an  *)
(* event of a name already registered consumes no identifier.             *)
C2_CapacityIs93 ==
    /\ pc = "panicked" =>
         /\ Cardinality(NamesUpTo(value_changes, reg_idx)) = 93
         /\ value_changes[reg_idx + 1].signal_name
               \notin NamesUpTo(value_changes, reg_idx)
    /\ pc \in {"register", "body", "done"} =>
         /\ Cardinality(NamesUpTo(value_changes, reg_idx)) <= 93
         /\ id_iter = Cardinality(NamesUpTo(value_changes, reg_idx))
    /\ pc \in {"body", "done"} => reg_idx = Len(value_changes)

\* the run aborted at the 94th name, after events of registered names
C2_Witness ==
    /\ pc = "panicked"
    /\ reg_idx > 93
    /\ Cardinality(NamesUpTo(value_changes, reg_idx + 1)) = 94

===========================================================================
